---- MODULE Spec2Model ----
(***************************************************************************)
(* Model of combostew_cli (src/lib.rs): the construction of a Config from  *)
(* the parsed command line (get_default_config), the image pipeline (run)  *)
(* and the license display run (run_display_licenses).                     *)
(*                                                                         *)
(* Option<T> is a sequence of length at most one: None is <<>>, Some(v) is *)
(* <<v>>.  Result<T, E> is a record [ok, val, err] whose val and err are   *)
(* options.  A string whose content is parsed (the jpeg quality) is a      *)
(* sequence of characters; a string that is only carried along (a path, a  *)
(* format name, a message of a collaborator) is a TLA+ string.             *)
(***************************************************************************)
EXTENDS Integers, Sequences, FiniteSets, TLC

\* ------------------------------------------------------------------ bounds
\* Longest raw value of --jpeg-encoding-quality that is enumerated.
MaxLen == 3

\* ------------------------------------------------------- options, results
None == <<>>
Some(v) == <<v>>
IsSome(o) == Len(o) > 0
Unwrap(o) == o[1]

Ok(v) == [ok |-> TRUE, val |-> Some(v), err |-> None]
Err(e) == [ok |-> FALSE, val |-> None, err |-> Some(e)]

\* Option::or_else
OrElse(o, alt) == IF IsSome(o) THEN o ELSE alt

\* ------------------------------------------------------------ clap matches
\* An ArgMatches is a map from the names of the arguments that occurred to
\* the values given to them (no value for a flag).
NoArgs == [n \in {} |-> <<>>]
Flag(n, present) == IF present THEN n :> <<>> ELSE NoArgs
Opt(n, o) == IF IsSome(o) THEN n :> o ELSE NoArgs

is_present(m, n) == n \in DOMAIN m
value_of(m, n) == IF n \in DOMAIN m /\ Len(m[n]) > 0 THEN Some(m[n][1]) ELSE None

\* ------------------------------------------------------------ input domains
Chars == {"0", "1", "5", "a", "-"}
Digits == {"0", "1", "5"}

RECURSIVE StringsOfLen(_)
StringsOfLen(n) ==
    IF n = 0 THEN {<<>>}
    ELSE {Append(s, c) : s \in StringsOfLen(n - 1), c \in Chars}

\* every string over Chars of length 0 .. MaxLen
Strings == UNION {StringsOfLen(n) : n \in 0..MaxLen}
\* the one-character strings "5" and "a": a valid and an invalid quality
FewStrings == {<<"5">>, <<"a">>}

Paths == {"a.png", "b.jpg"}
Formats == {"jpeg"}
ToolNames == {"sic", "stew"}
\* Vec<ConfigItem> handed in by the tool
AppConfigs == {<<>>, <<"item1", "item2">>}

OptOf(S) == {None} \cup {Some(v) : v \in S}

Matches(lic, dep, q, pnm, dis, fmt, inp, inpf, out, outf) ==
    Flag("license", lic) @@ Flag("dep_licenses", dep)
    @@ Opt("jpeg_encoding_quality", q) @@ Flag("pnm_encoding_ascii", pnm)
    @@ Flag("disable_automatic_color_type_adjustment", dis)
    @@ Opt("forced_output_format", fmt)
    @@ Opt("input", inp) @@ Opt("input_file", inpf)
    @@ Opt("output", out) @@ Opt("output_file", outf)

\* few quality values, every combination of the other options
WideMatches ==
    {Matches(lic, dep, q, pnm, dis, fmt, inp, inpf, out, outf) :
        lic \in BOOLEAN, dep \in BOOLEAN, q \in OptOf(FewStrings),
        pnm \in BOOLEAN, dis \in BOOLEAN, fmt \in OptOf(Formats),
        inp \in OptOf(Paths), inpf \in OptOf(Paths),
        out \in OptOf(Paths), outf \in OptOf(Paths)}

\* every quality value, few combinations of the other options
DeepMatches ==
    {Matches(lic, dep, q, FALSE, FALSE, None, None, None, out, None) :
        lic \in BOOLEAN, dep \in BOOLEAN, q \in OptOf(Strings),
        out \in OptOf({"a.png"})}

\* ------------------------------------------- combostew: JPEG quality setting
\* The quality used when --jpeg-encoding-quality is not given.
JPEG_ENCODING_QUALITY_DEFAULT == 80
QUALITY_MIN == 1
QUALITY_MAX == 100

DigitValue(c) == CASE c = "0" -> 0 [] c = "1" -> 1 [] c = "5" -> 5

RECURSIVE DecimalValue(_)
DecimalValue(s) ==
    IF Len(s) = 0 THEN 0
    ELSE 10 * DecimalValue(SubSeq(s, 1, Len(s) - 1)) + DigitValue(s[Len(s)])

AllDigits(s) == Len(s) > 0 /\ \A i \in 1..Len(s) : s[i] \in Digits

\* The text as a decimal integer: an optional minus sign and one or more
\* digits; None for anything else.
ParseInteger(s) ==
    IF AllDigits(s) THEN Some(DecimalValue(s))
    ELSE IF Len(s) > 1 /\ s[1] = "-" /\ AllDigits(Tail(s))
         THEN Some(0 - DecimalValue(Tail(s)))
         ELSE None

\* The failure of the validator: it names the value that was given (an
\* option: the flag may have come without one) and the valid range.
QualityError(value) ==
    [kind |-> "jpeg_encoding_quality", value |-> value,
     range |-> <<QUALITY_MIN, QUALITY_MAX>>]

\* JPEGEncodingSettings::new_result((present, value))
new_result(present, value) ==
    IF ~present THEN Ok([quality |-> JPEG_ENCODING_QUALITY_DEFAULT])
    ELSE LET n == IF IsSome(value) THEN ParseInteger(Unwrap(value)) ELSE None
         IN  IF IsSome(n) /\ Unwrap(n) >= QUALITY_MIN /\ Unwrap(n) <= QUALITY_MAX
             THEN Ok([quality |-> Unwrap(n)])
             ELSE Err(QualityError(value))

\* PNMEncodingSettings::new(ascii)
PNMEncodingSettings_new(ascii) == [ascii |-> ascii]

\* ----------------------------------------------------- get_default_config
SelectLicenses_first_arm_wins(this, deps) ==
    CASE this -> <<"ThisSoftware">>
      [] ~this /\ deps -> <<"Dependencies">>
      [] OTHER -> <<>>

\* the match on (is_present("license"), is_present("dep_licenses"))
SelectLicenses(this, deps) ==
    CASE this /\ deps -> <<"ThisSoftware", "Dependencies">>
      [] this /\ ~deps -> <<"ThisSoftware">>
      [] ~this /\ deps -> <<"Dependencies">>
      [] OTHER -> <<>>

ResolveOutput_alias_first(m) ==
    OrElse(value_of(m, "output_file"), value_of(m, "output"))

\* matches.value_of("output").or_else(|| matches.value_of("output_file"))
ResolveOutput(m) == OrElse(value_of(m, "output"), value_of(m, "output_file"))

JpegSettings_presence_of_other_flag(m) ==
    new_result(is_present(m, "pnm_encoding_ascii"),
               value_of(m, "jpeg_encoding_quality"))

\* JPEGEncodingSettings::new_result((is_present(..), value_of(..)))
JpegSettings(m) ==
    new_result(is_present(m, "jpeg_encoding_quality"),
               value_of(m, "jpeg_encoding_quality"))

BuildConfig_fields_mixed(m, tool, app_config, jpeg_settings) ==
    [tool_name |-> tool,
     licenses |-> SelectLicenses(is_present(m, "license"),
                                 is_present(m, "dep_licenses")),
     forced_output_format |-> value_of(m, "output"),
     disable_automatic_color_type_adjustment |->
         is_present(m, "disable_automatic_color_type_adjustment"),
     encoding_settings |->
         [jpeg_settings |-> jpeg_settings,
          pnm_settings |->
              PNMEncodingSettings_new(is_present(m, "pnm_encoding_ascii"))],
     output |-> ResolveOutput(m),
     application_specific |-> app_config]

\* the Config literal, given the jpeg settings that were resolved
BuildConfig(m, tool, app_config, jpeg_settings) ==
    [tool_name |-> tool,
     licenses |-> SelectLicenses(is_present(m, "license"),
                                 is_present(m, "dep_licenses")),
     forced_output_format |-> value_of(m, "forced_output_format"),
     disable_automatic_color_type_adjustment |->
         is_present(m, "disable_automatic_color_type_adjustment"),
     encoding_settings |->
         [jpeg_settings |-> jpeg_settings,
          pnm_settings |->
              PNMEncodingSettings_new(is_present(m, "pnm_encoding_ascii"))],
     output |-> ResolveOutput(m),
     application_specific |-> app_config]

get_default_config_falls_back(m, tool, app_config) ==
    LET jpeg == JpegSettings(m)
    IN  IF ~jpeg.ok
        THEN Ok(BuildConfig(m, tool, app_config,
                            [quality |-> JPEG_ENCODING_QUALITY_DEFAULT]))
        ELSE Ok(BuildConfig(m, tool, app_config, Unwrap(jpeg.val)))

get_default_config_wraps(m, tool, app_config) ==
    LET jpeg == JpegSettings(m)
    IN  IF ~jpeg.ok THEN Err([wrapped |-> Unwrap(jpeg.err)])
        ELSE Ok(BuildConfig(m, tool, app_config, Unwrap(jpeg.val)))

\* `?` returns the failure of new_result as it is; otherwise Ok(res)
get_default_config(m, tool, app_config) ==
    LET jpeg == JpegSettings(m)
    IN  IF ~jpeg.ok THEN Err(Unwrap(jpeg.err))
        ELSE Ok(BuildConfig(m, tool, app_config, Unwrap(jpeg.val)))

\* --------------------------------------------------------- collaborators
\* What the functions of combostew that run calls may answer.
ImportResults == {Ok("decoded"), Err("import: cannot read"), Err("import: cannot decode")}
TransformResults == {Ok("transformed"), Err("transform: operation failed")}
ExportResults == {Ok("written"), Err("export: cannot write")}

Call(name, arg) == [call |-> name, arg |-> arg]

\* ------------------------------------------------------------------ state
VARIABLES
    matches,       \* the ArgMatches of the invocation
    tool_name,     \* the tool name the caller supplies
    app_config,    \* the Vec<ConfigItem> the caller supplies
    entry,         \* the entry point the caller took: "image" or "licenses"
    pc,            \* where the invocation is
    config,        \* what get_default_config returned, None before it ran
    img,           \* the image buffer of run, None before import
    answers,       \* what import, process_mut and export answered
    log,           \* the calls made and diagnostics written, in order
    ret            \* what run or run_display_licenses returned

vars == <<matches, tool_name, app_config, entry, pc, config, img, answers, log, ret>>
inputs == <<matches, tool_name, app_config>>

NoAnswers == [import |-> None, transform |-> None, export |-> None]

Init ==
    /\ matches \in WideMatches \cup DeepMatches
    /\ tool_name \in ToolNames
    /\ app_config \in AppConfigs
    /\ entry = "none"
    /\ pc = "start"
    /\ config = None
    /\ img = None
    /\ answers = NoAnswers
    /\ log = <<>>
    /\ ret = None

\* the caller builds the Config for the image pipeline
GetDefaultConfig ==
    /\ pc = "start"
    /\ LET r == get_default_config(matches, tool_name, app_config)
       IN  /\ config' = Some(r)
           /\ pc' = IF r.ok THEN "configured" ELSE "done"
    /\ entry' = "image"
    /\ UNCHANGED <<inputs, img, answers, log, ret>>

ResolveInput_alias_first(m) ==
    OrElse(value_of(m, "input_file"), value_of(m, "input"))

\* the input source of run
ResolveInput(m) == OrElse(value_of(m, "input"), value_of(m, "input_file"))

Advises_no_forced_format(options) == ~IsSome(options.forced_output_format)

\* whether run writes the advisory about the default output format
Advises(options) == ~IsSome(options.output)

\* run, lines 112-117
RunAdvisory ==
    /\ pc = "configured"
    /\ log' = IF Advises(Unwrap(config).val[1])
              THEN Append(log, Call("advisory", <<>>)) ELSE log
    /\ pc' = "import"
    /\ UNCHANGED <<inputs, entry, config, img, answers, ret>>

AfterStage_goes_on(r, next) == next

\* where run goes after a stage answered r: `?` returns a failure
AfterStage(r, next) == IF r.ok THEN next ELSE "done"
ReturnOf(r) == IF r.ok THEN None ELSE Some(Err(Unwrap(r.err)))

\* run, lines 120-124
RunImport ==
    /\ pc = "import"
    /\ \E r \in ImportResults :
        /\ answers' = [answers EXCEPT !.import = Some(r)]
        /\ log' = Append(log, Call("import", ResolveInput(matches)))
        /\ img' = r.val
        /\ pc' = AfterStage(r, "transform")
        /\ ret' = ReturnOf(r)
    /\ UNCHANGED <<inputs, entry, config>>

\* run, lines 126-127
RunTransform ==
    /\ pc = "transform"
    /\ \E r \in TransformResults :
        /\ answers' = [answers EXCEPT !.transform = Some(r)]
        /\ log' = Append(log, Call("transform", img))
        /\ img' = IF r.ok THEN r.val ELSE img
        /\ pc' = AfterStage(r, "export")
        /\ ret' = ReturnOf(r)
    /\ UNCHANGED <<inputs, entry, config>>

\* run, lines 129-130
RunExport ==
    /\ pc = "export"
    /\ \E r \in ExportResults :
        /\ answers' = [answers EXCEPT !.export = Some(r)]
        /\ log' = Append(log, Call("export", img))
        /\ pc' = "done"
        /\ ret' = Some(IF r.ok THEN Ok("unit") ELSE Err(Unwrap(r.err)))
    /\ UNCHANGED <<inputs, entry, config, img>>

DisplayLog_always(r) ==
    <<Call("license_display", IF r.ok THEN Unwrap(r.val).licenses ELSE <<>>)>>

\* what run_display_licenses does with the result of get_default_config
DisplayLog(r) ==
    IF r.ok THEN <<Call("license_display", Unwrap(r.val).licenses)>> ELSE <<>>
DisplayReturn(r) == IF r.ok THEN Ok("unit") ELSE Err(Unwrap(r.err))

RunDisplayLicenses ==
    /\ pc = "start"
    /\ LET r == get_default_config(matches, tool_name, app_config)
       IN  /\ config' = Some(r)
           /\ log' = log \o DisplayLog(r)
           /\ ret' = Some(DisplayReturn(r))
    /\ entry' = "licenses"
    /\ pc' = "done"
    /\ UNCHANGED <<inputs, img, answers>>

Next ==
    \/ GetDefaultConfig
    \/ RunAdvisory
    \/ RunImport
    \/ RunTransform
    \/ RunExport
    \/ RunDisplayLicenses

Spec == Init /\ [][Next]_vars

\* ------------------------------------------------------------ properties
Built == IsSome(config)
Result == Unwrap(config)
Options == Unwrap(Result.val)

QualityGiven == is_present(matches, "jpeg_encoding_quality")
QualityText == matches["jpeg_encoding_quality"][1]

\* The decimal numerals of the qualities 1 .. 100, with leading zeros.
DigitChar == <<"0", "1", "2", "3", "4", "5", "6", "7", "8", "9">>

RECURSIVE Numeral(_)
Numeral(n) ==
    IF n < 10 THEN <<DigitChar[n + 1]>>
    ELSE Append(Numeral(n \div 10), DigitChar[(n % 10) + 1])

Zeros(k) == [i \in 1..k |-> "0"]

ValidQualityTexts ==
    {Zeros(k) \o Numeral(n) : k \in 0..(MaxLen + 1), n \in 1..100}

\* C1: with --jpeg-encoding-quality s, get_default_config succeeds exactly
\* when s is the decimal text of an integer in 1 .. 100; otherwise it
\* returns a failure, and the failure names s.
C1_QualityValidated ==
    (Built /\ QualityGiven) =>
        /\ Result.ok <=> (QualityText \in ValidQualityTexts)
        /\ Result.ok => Options.encoding_settings.jpeg_settings.quality \in 1..100
        /\ ~Result.ok => Unwrap(Result.err).value = Some(QualityText)

C1_Witness ==
    /\ Built /\ QualityGiven /\ ~Result.ok
    /\ QualityText = <<"1", "0", "1">>

\* C2: without --jpeg-encoding-quality the Config is built and carries the
\* default quality, whatever else is given; and the quality of every Config
\* that is built lies in 1 .. 100.
C2_DefaultQuality ==
    Built =>
        /\ ~QualityGiven =>
              /\ Result.ok
              /\ Options.encoding_settings.jpeg_settings.quality
                     = JPEG_ENCODING_QUALITY_DEFAULT
        /\ Result.ok => Options.encoding_settings.jpeg_settings.quality \in 1..100

C2_Witness ==
    /\ Built /\ ~QualityGiven /\ Result.ok
    /\ is_present(matches, "pnm_encoding_ascii")
    /\ is_present(matches, "forced_output_format")

\* C3: licenses is decided by the presence of --license and --dep-licenses
\* alone, as in the table; the two flags never make the construction fail.
C3_LicenseTable ==
    Built =>
        LET this == "license" \in DOMAIN matches
            deps == "dep_licenses" \in DOMAIN matches
        IN  /\ Result.ok =>
                /\ (this /\ deps) => Options.licenses = <<"ThisSoftware", "Dependencies">>
                /\ (this /\ ~deps) => Options.licenses = <<"ThisSoftware">>
                /\ (~this /\ deps) => Options.licenses = <<"Dependencies">>
                /\ (~this /\ ~deps) => Options.licenses = <<>>
            /\ ~Result.ok => QualityGiven

C3_Witness ==
    /\ Built /\ Result.ok
    /\ "license" \in DOMAIN matches /\ "dep_licenses" \in DOMAIN matches
    /\ Options.licenses = <<"ThisSoftware", "Dependencies">>

\* C4: Config.output is the value of "output" when it is given, else the
\* value of "output_file" when that is given, else unset.
C4_OutputPrecedence ==
    (Built /\ Result.ok) =>
        LET primary == "output" \in DOMAIN matches
            alias == "output_file" \in DOMAIN matches
        IN  /\ primary => Options.output = <<matches["output"][1]>>
            /\ (~primary /\ alias) => Options.output = <<matches["output_file"][1]>>
            /\ (~primary /\ ~alias) => Options.output = <<>>

C4_Witness ==
    /\ Built /\ Result.ok
    /\ "output" \in DOMAIN matches /\ "output_file" \in DOMAIN matches
    /\ matches["output"] # matches["output_file"]
    /\ Options.output = matches["output"]

\* C5: get_default_config fails exactly when the jpeg settings fail, and
\* then returns that failure as it is and no Config.
C5_FailurePropagated ==
    Built =>
        LET jpeg == new_result(QualityGiven, value_of(matches, "jpeg_encoding_quality"))
        IN  /\ Result.ok <=> jpeg.ok
            /\ ~Result.ok => (Result.err = jpeg.err /\ Result.val = None)

C5_Witness == Built /\ ~Result.ok /\ Result.val = None /\ entry = "image"

\* the calls of the log that import, transform or export an image
StageNames == {"import", "transform", "export"}
IsStage(e) == e.call \in StageNames
StageCalls == SelectSeq(log, IsStage)

\* C6: run_display_licenses touches no image; it returns Ok and displays
\* the licenses of the Config it built when the construction succeeded,
\* and returns the failure, displaying nothing, when it failed.
C6_LicenseDisplay ==
    (entry = "licenses") =>
        /\ pc = "done" /\ Built /\ IsSome(ret)
        /\ StageCalls = <<>> /\ img = None /\ answers = NoAnswers
        /\ Result.ok =>
              /\ Unwrap(ret).ok
              /\ log = <<Call("license_display", Options.licenses)>>
        /\ ~Result.ok =>
              /\ ~Unwrap(ret).ok /\ Unwrap(ret).err = Result.err
              /\ log = <<>>

C6_Witness ==
    /\ entry = "licenses" /\ Result.ok
    /\ log = <<Call("license_display", <<"ThisSoftware", "Dependencies">>)>>

C6_WitnessFailure == entry = "licenses" /\ ~Result.ok /\ log = <<>>

\* C7: the stages of run are called at most once each, in the order import,
\* transform, export; a stage is called only after the stage before it
\* succeeded; a failure ends the run and is what run returns.
Order == <<"import", "transform", "export">>
Answered(stage) == IsSome(answers[stage])
Failed(stage) == Answered(stage) /\ ~Unwrap(answers[stage]).ok

C7_StagesInOrder ==
    /\ Len(StageCalls) <= 3
    /\ \A i \in 1..Len(StageCalls) : StageCalls[i].call = Order[i]
    /\ \A i \in 1..3 : Answered(Order[i]) <=> i <= Len(StageCalls)
    /\ \A i \in 2..3 : Answered(Order[i]) => Unwrap(answers[Order[i - 1]]).ok
    /\ \A i \in 1..3 :
          Failed(Order[i]) =>
              /\ pc = "done"
              /\ Len(StageCalls) = i
              /\ ret = Some(Err(Unwrap(Unwrap(answers[Order[i]]).err)))

C7_Witness == Failed("transform") /\ pc = "done" /\ Len(StageCalls) = 2

\* C8: run writes the advisory exactly when Config.output is unset, before
\* it calls import, and what run returns is decided by the answers of
\* import, process_mut and export alone.
Advisory == Call("advisory", <<>>)
Advised == \E i \in 1..Len(log) : log[i] = Advisory

Outcome ==
    IF Failed("import") THEN Err(Unwrap(Unwrap(answers["import"]).err))
    ELSE IF Failed("transform") THEN Err(Unwrap(Unwrap(answers["transform"]).err))
    ELSE IF Failed("export") THEN Err(Unwrap(Unwrap(answers["export"]).err))
    ELSE Ok("unit")

C8_Advisory ==
    (entry = "image" /\ pc \notin {"start", "configured"} /\ Result.ok) =>
        /\ Advised <=> Options.output = None
        /\ Advised => (log[1] = Advisory /\ \A i \in 2..Len(log) : log[i] # Advisory)
        /\ pc = "done" => ret = Some(Outcome)

C8_Witness ==
    /\ entry = "image" /\ pc = "done" /\ Advised
    /\ Len(log) = 4 /\ log[2].call = "import" /\ Unwrap(ret).ok

C8_WitnessSilent ==
    /\ entry = "image" /\ pc = "done" /\ ~Advised
    /\ Len(log) = 3 /\ Unwrap(ret).ok

\* C9: a Config that is built carries the tool name, the extension list,
\* the --output-format value and the presence of
\* --disable-automatic-color-type-adjustment as they were given.
C9_CarriedThrough ==
    (Built /\ Result.ok) =>
        /\ Options.tool_name = tool_name
        /\ Options.application_specific = app_config
        /\ Options.forced_output_format =
              (IF "forced_output_format" \in DOMAIN matches
               THEN <<matches["forced_output_format"][1]>> ELSE <<>>)
        /\ Options.disable_automatic_color_type_adjustment =
              ("disable_automatic_color_type_adjustment" \in DOMAIN matches)

C9_Witness ==
    /\ Built /\ Result.ok
    /\ Options.application_specific = <<"item1", "item2">>
    /\ Options.forced_output_format = <<"jpeg">>
    /\ Options.disable_automatic_color_type_adjustment
    /\ "output" \in DOMAIN matches /\ "jpeg_encoding_quality" \in DOMAIN matches

\* C10: import is called with the value of "input" when it is given, else
\* with the value of "input_file" when that is given, else with no path.
ImportCalls == SelectSeq(log, LAMBDA e : e.call = "import")

C10_InputFallback ==
    \A i \in 1..Len(ImportCalls) :
        LET primary == "input" \in DOMAIN matches
            alias == "input_file" \in DOMAIN matches
            source == ImportCalls[i].arg
        IN  /\ primary => source = <<matches["input"][1]>>
            /\ (~primary /\ alias) => source = <<matches["input_file"][1]>>
            /\ (~primary /\ ~alias) => source = <<>>
            /\ (source = <<>>) => (~primary /\ ~alias)

C10_Witness ==
    /\ Len(ImportCalls) = 1
    /\ "input" \in DOMAIN matches /\ "input_file" \in DOMAIN matches
    /\ matches["input"] # matches["input_file"]
    /\ ImportCalls[1].arg = matches["input"]
====
